---- MODULE Spec2Model ----
(***************************************************************************)
(* Model of himena-stats: the statistical-test commands (test_tools) and   *)
(* the distribution commands (distributions).  Every command is a          *)
(* synchronous handler; the host invokes one handler at a time with the    *)
(* arguments the user entered and receives either a result or an           *)
(* exception.  The handlers keep no state from one invocation to the next: *)
(* op, args and ret record which handler ran last, the arguments it was    *)
(* given, and what it returned or raised.  The distribution view is the    *)
(* one stateful object: a window is opened by update_model calls, and then *)
(* to_model, plot_dist or sample_dist read it.                             *)
(*                                                                         *)
(* Numbers.  p-values are fixed-point integers in units of 10^-7 (PUnit),  *)
(* so 0.05 is 500000.  Observation values and distribution parameters are  *)
(* fixed-point integers in tenths (VUnit), so 1.5 is 15.                   *)
(***************************************************************************)
EXTENDS Integers, Sequences, FiniteSets, TLC

VARIABLES op, args, ret, _dist, _img_view, _param_view

\* the fields of the distribution view
widget == <<_dist, _img_view, _param_view>>

vars == <<op, args, ret, _dist, _img_view, _param_view>>

PUnit == 10^7
VUnit == 2 * 5

Range(s) == {s[k] : k \in DOMAIN s}

Abs(x) == IF x < 0 THEN -x ELSE x

(***************************************************************************)
(* test_tools/_utils.py                                                    *)
(***************************************************************************)
AsteriskCodes == {"n.s.", "*", "**", "***", "****"}

\* 0.05, 0.01, 0.001, 0.0001 in units of 10^-7
Thr05 == (5 * PUnit) \div 100
Thr01 == PUnit \div 100
Thr001 == PUnit \div 1000
Thr0001 == PUnit \div 10000

\* a plausible slip: the first tier compared with >= instead of >
pvalue_to_asterisks_ge(pval) ==
    IF pval >= Thr05 THEN "n.s."
    ELSE IF pval > Thr01 THEN "*"
    ELSE IF pval > Thr001 THEN "**"
    ELSE IF pval > Thr0001 THEN "***"
    ELSE "****"

pvalue_to_asterisks(pval) ==
    IF pval > Thr05 THEN "n.s."
    ELSE IF pval > Thr01 THEN "*"
    ELSE IF pval > Thr001 THEN "**"
    ELSE IF pval > Thr0001 THEN "***"
    ELSE "****"

(***************************************************************************)
(* format(x, ".5g") for 0 <= x <= 1, x = n / PUnit: round to 5 significant *)
(* digits, drop trailing zeros, switch to exponent notation when the       *)
(* decimal exponent is below -4.                                           *)
(***************************************************************************)
RECURSIVE NumDigits(_)
NumDigits(n) == IF n < 10 THEN 1 ELSE 1 + NumDigits(n \div 10)

RECURSIVE StripZeros(_)
StripZeros(m) == IF m # 0 /\ m % 10 = 0 THEN StripZeros(m \div 10) ELSE m

RECURSIVE Zeros(_)
Zeros(k) == IF k <= 0 THEN "" ELSE "0" \o Zeros(k - 1)

\* the digits of r written in a field of w digits, trailing zeros removed
FracStr(r, w) == Zeros(w - NumDigits(r)) \o ToString(StripZeros(r))

\* ties are decided on the binary value in the code; the inputs used here
\* have no decimal tie, so the tie rule is never exercised
RoundDiv(n, unit) ==
    LET q == n \div unit
        r == n % unit
    IN IF 2 * r > unit THEN q + 1
       ELSE IF 2 * r < unit THEN q
       ELSE IF q % 2 = 0 THEN q ELSE q + 1

SciStr(m, X) ==
    LET lead == m \div 10000
        rest == m % 10000
    IN ToString(lead)
       \o (IF rest = 0 THEN "" ELSE "." \o FracStr(rest, 4))
       \o "e" \o (IF X < 0 THEN "-" ELSE "+")
       \o (IF Abs(X) < 10 THEN "0" ELSE "") \o ToString(Abs(X))

FixedStr(m, X) ==
    IF X >= 0
    THEN LET ip == m \div 10^(4 - X)
             fp == m % 10^(4 - X)
         IN ToString(ip) \o (IF fp = 0 THEN "" ELSE "." \o FracStr(fp, 4 - X))
    ELSE "0." \o FracStr(m, 4 - X)

Format5g(n) ==
    IF n = 0 THEN "0"
    ELSE LET d == NumDigits(n)
             m0 == IF d > 5 THEN RoundDiv(n, 10^(d - 5)) ELSE n * 10^(5 - d)
             carry == m0 = 100000
             m == IF carry THEN 10000 ELSE m0
             X == d - 8 + (IF carry THEN 1 ELSE 0)
         IN IF X < -4 \/ X >= 5 THEN SciStr(m, X) ELSE FixedStr(m, X)

\* format(x, ".5g") of a signed value
FormatG(n) == IF n < 0 THEN "-" \o Format5g(-n) ELSE Format5g(n)

(***************************************************************************)
(* test_tools/_multiple.py: _pval_matrix                                   *)
(***************************************************************************)
\* a plausible slip: the two triangles exchanged
pval_matrix_swapped(pvalues, columns) ==
    LET size == Len(pvalues)
    IN [i \in 0..size |-> [j \in 0..size |->
          IF i = 0 /\ j = 0 THEN ""
          ELSE IF i = 0 THEN columns[j]
          ELSE IF j = 0 THEN columns[i]
          ELSE IF i < j THEN pvalue_to_asterisks(pvalues[i][j])
          ELSE IF i = j THEN "1.0"
          ELSE Format5g(pvalues[i][j])]]

\* pvalues is 1-indexed here, so pvalues[i][j] is the code's pvalues[i-1, j-1]
pval_matrix(pvalues, columns) ==
    LET size == Len(pvalues)
    IN [i \in 0..size |-> [j \in 0..size |->
          IF i = 0 /\ j = 0 THEN ""
          ELSE IF i = 0 THEN columns[j]
          ELSE IF j = 0 THEN columns[i]
          ELSE IF i > j THEN pvalue_to_asterisks(pvalues[i][j])
          ELSE IF i = j THEN "1.0"
          ELSE Format5g(pvalues[i][j])]]

(***************************************************************************)
(* test_tools/_single.py: the table, its selections and the two-sample     *)
(* extraction (himena's model_to_xy_arrays, called with the flags the      *)
(* handlers pass)                                                          *)
(***************************************************************************)
MaxRows == 3

ColNames == <<"A", "B">>

ModelTitle == "Table"

\* the table of win.to_model(): column A alternates 1.0, 2.5; column B grows
TableCell(r, c) == IF c = 0 THEN (IF r % 2 = 0 THEN 10 ELSE 25) ELSE 10 + 15 * r

\* a selection is ((r0, r1), (c0, c1)); the handlers take one column of at
\* least two rows (allow_empty_x=False, allow_multiple_y=False)
Selections ==
    {<<<<r0, r1>>, <<c, c + 1>>>> :
        <<r0, r1, c>> \in {t \in (0..MaxRows) \X (0..MaxRows) \X (0..Len(ColNames) - 1) :
                              t[2] - t[1] >= 2}}

NamedArray(sel) ==
    [name |-> ColNames[sel[2][1] + 1],
     array |-> [k \in 1..(sel[1][2] - sel[1][1]) |-> TableCell(sel[1][1] + k - 1, sel[2][1])]]

model_to_xy_arrays(a, b, same_size) ==
    LET x0 == NamedArray(a)
        y0 == NamedArray(b)
    IN IF same_size /\ Len(x0.array) # Len(y0.array)
       THEN [status |-> "error", error |-> "ValueError",
             raised_by |-> "model_to_xy_arrays", stage |-> "validate"]
       ELSE [status |-> "ok", x0 |-> x0, y0 |-> <<y0>>]

(***************************************************************************)
(* scipy.stats as the handlers use it.  f_oneway is computed: it works     *)
(* along axis 0 of its arguments and returns one F and one p-value per     *)
(* column.  The t, Wilcoxon and Mann-Whitney statistics and p-values are   *)
(* library results, drawn from LibPVals and LibStats.                      *)
(***************************************************************************)
RECURSIVE SumSeq(_)
SumSeq(s) == IF s = <<>> THEN 0 ELSE Head(s) + SumSeq(Tail(s))

Squares(s) == [k \in DOMAIN s |-> s[k] * s[k]]

ColumnOf(m, k) == [i \in 1..Len(m) |-> m[i][k]]

\* the F statistic of two groups as a fraction num / den
FStat(g1, g2) ==
    LET n1 == Len(g1)
        n2 == Len(g2)
        S1 == SumSeq(g1)
        S2 == SumSeq(g2)
        Q1 == SumSeq(Squares(g1))
        Q2 == SumSeq(Squares(g2))
        d == n2 * S1 - n1 * S2
    IN [num |-> (n1 + n2 - 2) * d * d,
        den |-> (n1 + n2) * (n2 * (n1 * Q1 - S1 * S1) + n1 * (n2 * Q2 - S2 * S2)),
        dfd |-> n1 + n2 - 2]

\* f_oneway(*samples, axis=0): one result per column of the 2-D arguments
f_oneway(s1, s2) == [k \in 1..Len(s1[1]) |-> FStat(ColumnOf(s1, k), ColumnOf(s2, k))]

\* pvalue < threshold for an F(1, 2) variable, whose survival function is
\* 1 - sqrt(F / (F + 2)); thr is in hundredths; 0/0 is nan and compares False
pvalue_lt(F, thr) ==
    IF F.num = 0 /\ F.den = 0 THEN FALSE
    ELSE IF F.den = 0 THEN 0 < thr
    ELSE 10000 * F.num > (100 - thr) * (100 - thr) * (F.num + 2 * F.den)

\* bool() of a numpy array: defined for one element, ValueError otherwise
truth_value(bs) ==
    IF Len(bs) = 1 THEN [status |-> "ok", value |-> bs[1]]
    ELSE [status |-> "error", error |-> "ValueError", raised_by |-> "numpy",
          stage |-> "select"]

LibPVals == {500000, 12346}

LibStats == {-21234567, 15000000}

Alternatives == {"two-sided", "less", "greater"}

Kinds == {"Student", "Welch", "F"}

\* f_threshold in hundredths: the default 0.05, and 0.5
FThresholds == {5, 50}

Min(x, y) == IF x < y THEN x ELSE y

\* t_result.df in tenths: n1 + n2 - 2 with equal variances, the
\* Welch-Satterthwaite value (between min(n1, n2) - 1 and n1 + n2 - 2) without
TTestInd(x, y, equal_var) ==
    LET n1 == Len(x)
        n2 == Len(y)
        lo == VUnit * (Min(n1, n2) - 1)
        hi == VUnit * (n1 + n2 - 2)
        dfs == IF equal_var THEN {hi} ELSE {lo, IF lo + 7 < hi THEN lo + 7 ELSE hi, hi}
    IN {[pvalue |-> pv, statistic |-> st, df |-> d] :
            pv \in LibPVals, st \in LibStats, d \in dfs}

\* ttest_rel rejects unequal lengths itself; df = n - 1
TTestRel(x, y) ==
    IF Len(x) # Len(y)
    THEN {[status |-> "error", error |-> "ValueError", raised_by |-> "scipy.stats",
           stage |-> "compute"]}
    ELSE {[status |-> "ok", pvalue |-> pv, statistic |-> st, df |-> VUnit * (Len(x) - 1)] :
            pv \in LibPVals, st \in LibStats}

\* wilcoxon works on x - y: unequal lengths raise, and so may all-zero
\* differences (depending on the library version)
Wilcoxon(x, y) ==
    IF Len(x) # Len(y)
    THEN {[status |-> "error", error |-> "ValueError", raised_by |-> "scipy.stats",
           stage |-> "compute"]}
    ELSE {[status |-> "ok", pvalue |-> pv, statistic |-> st] :
            pv \in LibPVals, st \in {0, 15000000}}
         \cup (IF x = y
               THEN {[status |-> "error", error |-> "ValueError",
                      raised_by |-> "scipy.stats", stage |-> "compute"]}
               ELSE {})

MannWhitneyU(x, y) ==
    {[pvalue |-> pv, statistic |-> st] : pv \in LibPVals, st \in {0, 40000000}}

\* int(t_result.df): truncation
IntOf(v) == v \div VUnit

(***************************************************************************)
(* test_tools/_single.py: the handlers                                     *)
(***************************************************************************)
WidgetDataModel(value, title) == [status |-> "ok", value |-> value, title |-> title]

\* a plausible slip: the degrees-of-freedom row left out
ttest_result_to_model_nodf(t_result, title, rows) ==
    WidgetDataModel(
        <<<<"p-value", Format5g(t_result.pvalue)>>,
          <<"", pvalue_to_asterisks(t_result.pvalue)>>,
          <<"t-statistic", FormatG(t_result.statistic)>>>> \o rows,
        title)

ttest_result_to_model(t_result, title, rows) ==
    WidgetDataModel(
        <<<<"p-value", Format5g(t_result.pvalue)>>,
          <<"", pvalue_to_asterisks(t_result.pvalue)>>,
          <<"t-statistic", FormatG(t_result.statistic)>>,
          <<"degrees of freedom", IntOf(t_result.df)>>>> \o rows,
        title)

\* the method after the "F" branch: f_oneway is given the selections a and b
select_kind(a, b, kind, f_threshold) ==
    IF kind = "F"
    THEN LET f_result == f_oneway(a, b)
             cond == truth_value([k \in DOMAIN f_result |-> pvalue_lt(f_result[k], f_threshold)])
         IN IF cond.status = "error" THEN cond @@ [f_result |-> f_result]
            ELSE [status |-> "ok", value |-> IF cond.value THEN "Student" ELSE "Welch"]
    ELSE [status |-> "ok", value |-> kind]

\* t_test.run_t_test: the set of outcomes, one per result the library can give
run_t_test(a, b, alternative, kind, f_threshold) ==
    LET xy == model_to_xy_arrays(a, b, FALSE)
    IN IF xy.status = "error" THEN {xy}
       ELSE LET k == select_kind(a, b, kind, f_threshold)
            IN IF k.status = "error" THEN {k}
               ELSE {ttest_result_to_model(
                         t_result,
                         "T-test result of " \o ModelTitle,
                         <<<<"kind", k.value>>,
                           <<"comparison", xy.x0.name \o " vs " \o xy.y0[1].name>>>>) :
                     t_result \in TTestInd(xy.x0.array, xy.y0[1].array, k.value = "Student")}

\* paired_t_test.run_t_test
run_paired_t_test(a, b, alternative) ==
    LET xy == model_to_xy_arrays(a, b, TRUE)
    IN IF xy.status = "error" THEN {xy}
       ELSE {IF t_result.status = "error" THEN t_result
             ELSE ttest_result_to_model(
                      t_result,
                      "Paired T-test result of " \o ModelTitle,
                      <<<<"comparison", xy.x0.name \o " vs " \o xy.y0[1].name>>>>) :
             t_result \in TTestRel(xy.x0.array, xy.y0[1].array)}

\* wilcoxon_test.run_wilcoxon_test
run_wilcoxon_test(a, b, alternative) ==
    LET xy == model_to_xy_arrays(a, b, FALSE)
    IN IF xy.status = "error" THEN {xy}
       ELSE {IF w_result.status = "error" THEN w_result
             ELSE WidgetDataModel(
                      <<<<"p-value", Format5g(w_result.pvalue)>>,
                        <<"", pvalue_to_asterisks(w_result.pvalue)>>,
                        <<"statistic", FormatG(w_result.statistic)>>>>,
                      "Wilcoxon Test result of " \o ModelTitle) :
             w_result \in Wilcoxon(xy.x0.array, xy.y0[1].array)}

\* mann_whitney_u_test.run_mann_whitney_u_test
run_mann_whitney_u_test(a, b, alternative) ==
    LET xy == model_to_xy_arrays(a, b, FALSE)
    IN IF xy.status = "error" THEN {xy}
       ELSE {WidgetDataModel(
                 <<<<"p-value", Format5g(u_result.pvalue)>>,
                   <<"", pvalue_to_asterisks(u_result.pvalue)>>,
                   <<"U-statistic", FormatG(u_result.statistic)>>>>,
                 "Mann-Whitney U Test result of " \o ModelTitle) :
             u_result \in MannWhitneyU(xy.x0.array, xy.y0[1].array)}

(***************************************************************************)
(* test_tools/_multiple.py: _values_groups_to_arrays.  The table of this   *)
(* command has a label column (column 0) and a value column (column 1).    *)
(***************************************************************************)
MaxLen == 3

None == <<>>

GroupLabels == {1, 2, 3}

GroupValues == {10, 25}

\* str(uval)
Str(v) == ToString(v)

\* model_to_col_val_arrays / model_to_vals_arrays: the column a selection names
ColumnArray(table, sel) ==
    LET column == IF sel[2][1] = 0 THEN table.group ELSE table.value
    IN [name |-> IF sel[2][1] = 0 THEN "group" ELSE "value",
        array |-> SubSeq(column, sel[1][1] + 1, sel[1][2])]

\* a plausible slip: np.unique, which sorts, in place of OrderedSet
RECURSIVE SortedSet(_)
SortedSet(arr) ==
    IF Range(arr) = {} THEN <<>>
    ELSE LET lo == CHOOSE v \in Range(arr) : \A w \in Range(arr) : v <= w
         IN <<lo>> \o SortedSet(SelectSeq(arr, LAMBDA v : v # lo))

\* OrderedSet(col.array): the distinct elements in the order they first occur
RECURSIVE OrderedSet(_)
OrderedSet(arr) ==
    IF arr = <<>> THEN <<>>
    ELSE LET init == OrderedSet(SubSeq(arr, 1, Len(arr) - 1))
             last == arr[Len(arr)]
         IN IF last \in Range(init) THEN init ELSE Append(init, last)

\* val.array[col.array == uval]: boolean-mask indexing
RECURSIVE MaskSelect(_, _, _)
MaskSelect(val, col, uval) ==
    IF val = <<>> THEN <<>>
    ELSE LET rest == MaskSelect(Tail(val), Tail(col), uval)
         IN IF Head(col) = uval THEN <<Head(val)>> \o rest ELSE rest

values_groups_to_arrays(table, values, groups) ==
    IF groups = None
    THEN [status |-> "ok",
          value |-> [k \in DOMAIN values |-> ColumnArray(table, values[k])]]
    ELSE IF Len(values) # 1
    THEN [status |-> "error", error |-> "ValueError",
          raised_by |-> "_values_groups_to_arrays", stage |-> "validate"]
    ELSE LET col == ColumnArray(table, groups)
             val == ColumnArray(table, values[1])
             unique_values == OrderedSet(col.array)
         IN [status |-> "ok",
             value |-> [k \in DOMAIN unique_values |->
                          [name |-> Str(unique_values[k]),
                           array |-> MaskSelect(val.array, col.array, unique_values[k])]]]

(***************************************************************************)
(* distributions/_construct.py: the constructors.  A frozen scipy          *)
(* distribution is the family name with its keyword arguments; freezing    *)
(* does not check the arguments.                                           *)
(***************************************************************************)
rv_frozen(dist, kwds) == [dist |-> dist, kwds |-> kwds]

construct_norm(mu, sigma) ==
    WidgetDataModel(rv_frozen("norm", [loc |-> mu, scale |-> sigma]), "Normal")

construct_uniform(a, b) ==
    WidgetDataModel(rv_frozen("uniform", [loc |-> a, scale |-> b - a]), "Uniform")

construct_expon(scale) ==
    WidgetDataModel(rv_frozen("expon", [scale |-> scale]), "Exponential")

construct_gamma(a, scale) ==
    WidgetDataModel(rv_frozen("gamma", [a |-> a, scale |-> scale]), "Gamma")

construct_beta(a, b) ==
    WidgetDataModel(rv_frozen("beta", [a |-> a, b |-> b]), "Beta")

construct_cauchy(loc, scale) ==
    WidgetDataModel(rv_frozen("cauchy", [loc |-> loc, scale |-> scale]), "Cauchy")

construct_t(df) ==
    WidgetDataModel(rv_frozen("t", [df |-> df]), "T")

construct_binom(n, p) ==
    WidgetDataModel(rv_frozen("binom", [n |-> n, p |-> p]), "Binomial")

construct_poisson(lambda_) ==
    WidgetDataModel(rv_frozen("poisson", [mu |-> lambda_]), "Poisson")

construct_geom(p) ==
    WidgetDataModel(rv_frozen("geom", [p |-> p]), "Geometric")

\* hasattr(dist, "pdf"): the continuous families
HasPdf(dist) == dist.dist \in {"norm", "uniform", "expon", "gamma", "beta", "cauchy", "t"}

\* float parameters in tenths, probabilities in tenths, the integer n of binom
FloatParams == {-10, 0, 10, 25}

ProbParams == {-5, 0, 5, 10, 15}

IntParams == {-1, 0, 10}

(***************************************************************************)
(* distributions/_construct.py: _norm_obs.  An observation source is its   *)
(* type and a grid of cells (rows of columns), values in tenths.  A table  *)
(* holds text, an array and a frame hold floats.                           *)
(***************************************************************************)
MaxObsRows == 3

ObsTypes == {"table", "dataframe", "array", "text"}

\* column 0: 1.0, 2.0, ...; column 1: -1.5, 2.7, 3.9, ...; column 2: 2.0 throughout
ObsCell(r, c) ==
    IF c = 0 THEN 10 * (r + 1)
    ELSE IF c = 1 THEN (IF r = 0 THEN -15 ELSE 15 + 12 * r)
    ELSE 20

ObsCols == {0, 1, 2}

ObsGrid == [r \in 1..MaxObsRows |-> [c \in 1..Cardinality(ObsCols) |-> ObsCell(r - 1, c - 1)]]

\* a selection of the observation window, or None
ObsRanges ==
    {None} \cup
    {<<<<r0, r1>>, <<c0, c1>>>> :
        <<r0, r1, c0, c1>> \in {t \in (0..MaxObsRows) \X (0..MaxObsRows)
                                      \X (0..Cardinality(ObsCols)) \X (0..Cardinality(ObsCols)) :
                                   t[1] <= t[2]}}

Error(error, raised_by, stage) ==
    [status |-> "error", error |-> error, raised_by |-> raised_by, stage |-> stage]

\* s[start:stop] of Python for 0 <= start, stop
PySlice(s, start, stop) == SubSeq(s, start + 1, IF stop > Len(s) THEN Len(s) ELSE stop)

\* value[slice(*rinds), slice(*cinds)]
Slice2D(grid, rinds, cinds) ==
    LET rows == PySlice(grid, rinds[1], rinds[2])
    IN [k \in DOMAIN rows |-> PySlice(rows[k], cinds[1], cinds[2])]

\* astype of one cell: text is parsed (int() of a text with a fraction is a
\* ValueError), a float is cut to its integer part
CastFails(v, type, dtype) == dtype = "int64" /\ type = "table" /\ v % VUnit # 0

\* int64 of a float: the fraction is dropped, towards zero
Truncate(v) == IF v < 0 THEN -((-v) \div VUnit) * VUnit ELSE (v \div VUnit) * VUnit

Cast(v, type, dtype) == IF dtype = "int64" THEN Truncate(v) ELSE v

\* arr.ravel()
RECURSIVE Ravel(_)
Ravel(rows) == IF rows = <<>> THEN <<>> ELSE Head(rows) \o Ravel(Tail(rows))

\* array.astype(dtype) of a grid or of a column
AsType(rows, type, dtype) ==
    IF \E v \in Range(Ravel(rows)) : CastFails(v, type, dtype)
    THEN Error("ValueError", "numpy", "validate")
    ELSE [status |-> "ok",
          value |-> [i \in DOMAIN rows |-> [j \in DOMAIN rows[i] |-> Cast(rows[i][j], type, dtype)]]]

\* _norm_obs; a frame's column comes back as a single-row grid (1-D)
norm_obs(obs, obs_range, dtype) ==
    IF obs.type \in {"table", "array"}
    THEN AsType(IF obs_range = None THEN obs.value
                ELSE Slice2D(obs.value, obs_range[1], obs_range[2]),
                obs.type, dtype)
    ELSE IF obs.type = "dataframe"
    THEN IF obs_range = None
         THEN Error("TypeError", "_norm_obs", "validate")
         ELSE LET rsl == obs_range[1]
                  csl == obs_range[2]
              IN IF csl[1] - csl[2] # 1
                 THEN Error("ValueError", "_norm_obs", "validate")
                 ELSE IF csl[1] >= Len(obs.value[1])
                 THEN Error("IndexError", "wrap_dataframe", "validate")
                 ELSE LET column == [k \in DOMAIN obs.value |-> obs.value[k][csl[1] + 1]]
                      IN AsType(<<PySlice(column, rsl[1], rsl[2])>>, obs.type, dtype)
    ELSE Error("NotImplementedError", "_norm_obs", "validate")

(***************************************************************************)
(* distributions/_construct.py: fit_dist.run_fit                           *)
(***************************************************************************)
Frac(num, den) == [num |-> num, den |-> den]

ArrMin(a) == CHOOSE v \in Range(a) : \A w \in Range(a) : v <= w

ArrMax(a) == CHOOSE v \in Range(a) : \A w \in Range(a) : v >= w

\* a plausible slip: the scale floor taken as a thousandth of the range
fit_bounds_thousandth(arr) ==
    LET arr_min == ArrMin(Ravel(arr))
        arr_max == ArrMax(Ravel(arr))
        arr_dif == arr_max - arr_min
    IN [loc |-> <<arr_min, arr_max>>,
        scale |-> <<Frac(arr_dif, 1000), Frac(arr_dif * 10, 1)>>]

\* bounds = {"loc": (arr_min, arr_max), "scale": (arr_dif / 10000, arr_dif * 10)}
fit_bounds(arr) ==
    LET arr_min == ArrMin(Ravel(arr))
        arr_max == ArrMax(Ravel(arr))
        arr_dif == arr_max - arr_min
    IN [loc |-> <<arr_min, arr_max>>,
        scale |-> <<Frac(arr_dif, 10000), Frac(arr_dif * 10, 1)>>]

\* the shape parameters of a family
ShapeNames(name) ==
    CASE name = "gamma" -> {"a"}
      [] name = "beta" -> {"a", "b"}
      [] name = "t" -> {"df"}
      [] name = "binom" -> {"n", "p"}
      [] name = "poisson" -> {"mu"}
      [] name = "geom" -> {"p"}
      [] OTHER -> {}

\* stats.fit(dist.dist, data, guess=guess, bounds=bounds): the optimizer either
\* raises or returns the family's parameters, loc and scale inside the bounds
\* (scale for the continuous families only)
StatsFit(name, data, guess, bounds) ==
    LET names == ShapeNames(name) \cup {"loc"}
                 \cup (IF HasPdf([dist |-> name]) THEN {"scale"} ELSE {})
    IN {Error("ValueError", "scipy.stats", "compute")} \cup
       {[status |-> "ok",
         params |-> [n \in names |-> IF n = "loc" THEN l
                                     ELSE IF n = "scale" THEN bounds.scale[2]
                                     ELSE VUnit]] :
           l \in {bounds.loc[1], bounds.loc[2]}}

\* the distributions a fit starts from
FitModels == {construct_norm(0, 10), construct_gamma(20, 10), construct_poisson(50)}

\* run_fit: the set of outcomes; a completed call of the optimizer is recorded
\* with the result
run_fit(model, obs, obs_range, param_as_guess) ==
    LET dist == model.value
        dtype == IF HasPdf(dist) THEN "float64" ELSE "int64"
        arr == norm_obs(obs, obs_range, dtype)
    IN IF arr.status = "error" THEN {arr}
       ELSE IF Ravel(arr.value) = <<>> THEN {Error("ValueError", "numpy", "validate")}
       ELSE LET guess == IF param_as_guess THEN dist.kwds ELSE None
                bounds == fit_bounds(arr.value)
                data == Ravel(arr.value)
                call == [dist |-> dist.dist, data |-> data, guess |-> guess, bounds |-> bounds]
            IN {IF fit_result.status = "error"
                THEN fit_result @@ [fit_call |-> call]
                ELSE WidgetDataModel(rv_frozen(dist.dist, fit_result.params),
                                     model.title \o " fitted") @@ [fit_call |-> call] :
                fit_result \in StatsFit(dist.dist, data, guess, bounds)}

(***************************************************************************)
(* distributions/_widget.py: the distribution view.  The widget is the     *)
(* only object of the program that keeps state between calls: the field    *)
(* _dist and the contents of its two child views.                          *)
(***************************************************************************)
\* an empty graphics scene, an empty text
Empty == <<>>

\* dist.ppf(q) of scipy, q in thousandths, as a fraction of tenths: exact
\* for uniform, loc + z * scale with z = 3.09023 for norm, and the tabulated
\* quantiles 0 and 13 of the Poisson law of mean 5.0
Ppf(dist, q) ==
    CASE dist.dist = "uniform" ->
            Frac(1000 * dist.kwds.loc + q * dist.kwds.scale, 1000)
      [] dist.dist = "norm" ->
            Frac(100000 * dist.kwds.loc
                     + (IF q < 500 THEN -309023 ELSE 309023) * dist.kwds.scale,
                 100000)
      [] dist.dist = "poisson" ->
            IF q < 500 THEN Frac(0, 1) ELSE Frac(13 * VUnit, 1)

\* QDistGraphics.set_dist: the curve drawn over (ppf(0.001), ppf(0.999))
QDistGraphics_set_dist(dist) ==
    [xlow |-> Ppf(dist, 1), xhigh |-> Ppf(dist, 999),
     curve |-> IF HasPdf(dist) THEN "pdf" ELSE "pmf"]

\* QDistParameters.set_dist: the name and the parameters, as text
QDistParameters_set_dist(dist) == [dist_name |-> dist.dist, params |-> dist.kwds]

\* QDistributionView.to_model
to_model(dist_field) == [status |-> "ok", value |-> dist_field, type |-> "distribution"]

\* the distributions a window is opened with
DisplayModels ==
    {construct_uniform(0, 10), construct_norm(0, 10), construct_poisson(50)}

(***************************************************************************)
(* distributions/_construct.py: plot_dist and sample_dist                  *)
(***************************************************************************)
\* obs = None of run_plot
NoObs == [type |-> "None", value |-> <<>>]

FracMin(x, y) == IF y.num * x.den < x.num * y.den THEN y ELSE x

FracMax(x, y) == IF y.num * x.den > x.num * y.den THEN y ELSE x

\* int(np.sqrt(n))
Isqrt(n) == CHOOSE k \in 0..n : k * k <= n /\ (k + 1) * (k + 1) > n

\* infer_edges of distributions/_utils.py: the 0.1st and 99.9th percentile
infer_edges(dist) == <<Ppf(dist, 1), Ppf(dist, 999)>>

\* xlow = min(xlow, arr.min()); xhigh = max(xhigh, arr.max())
plot_domain(edges, arr) ==
    <<FracMin(edges[1], Frac(ArrMin(Ravel(arr)), 1)),
      FracMax(edges[2], Frac(ArrMax(Ravel(arr)), 1))>>

\* the figure: the layer drawn from the observations, and the domain over
\* which draw_pdf_or_pmf evaluates the red curve
Figure(layer, bins, domain) ==
    [layer |-> layer, bins |-> bins, curve_domain |-> domain]

run_plot(model, obs, obs_range) ==
    LET dist == model.value
    IN IF dist = None THEN Error("AttributeError", "python", "infer_edges")
       ELSE LET edges == infer_edges(dist)
                is_continuous == HasPdf(dist)
            IN IF obs = NoObs
               THEN WidgetDataModel(Figure("none", 0, edges), "Plot of " \o model.title)
               ELSE LET dtype == IF is_continuous THEN "float64" ELSE "int64"
                        arr == norm_obs(obs, obs_range, dtype)
                    IN IF arr.status = "error" THEN arr
                       ELSE IF Ravel(arr.value) = <<>>
                       THEN Error("ValueError", "numpy", "plot")
                       ELSE LET size == Len(Ravel(arr.value))
                                bins == IF Isqrt(size) < 64 THEN Isqrt(size) ELSE 64
                            IN WidgetDataModel(
                                   Figure(IF is_continuous THEN "hist" ELSE "bar",
                                          IF is_continuous THEN bins ELSE 0,
                                          plot_domain(edges, arr.value)),
                                   "Plot of " \o model.title)

\* dist.rvs(size, random_state): draws from the support of the distribution
rvs(dist, size) == [1..size -> {Ppf(dist, 1), Ppf(dist, 999)}]

MaxSample == 2

run_sample(model, sample_size, random_state) ==
    LET dist == model.value
    IN IF dist = None THEN {Error("AttributeError", "python", "rvs")}
       ELSE {WidgetDataModel(samples, "Samples from " \o model.title) :
                 samples \in rvs(dist, sample_size)}

\* win.to_model(): the model of the widget, titled by the window
WinTitle == "Distribution"

win_to_model(dist_field) == to_model(dist_field) @@ [title |-> WinTitle]

(***************************************************************************)
(* Inputs                                                                  *)
(***************************************************************************)
\* p-values around every tier boundary, and values of more than 5 digits
PVals == {0, 12, 900, 1000, 1001, 10000, 10001, 11000, 99000, 100000,
          100001, 500000, 500004, 501000, 1234567, 9999996, PUnit}

\* the cells of a pairwise matrix: 0.0500004 (formats as 0.05 but is n.s.)
\* and 0.0012346
MatPVals == {500004, 12346}

MaxN == 3

LabelPool == <<"A", "B", "C", "D", "E">>

LabelSeqs(n) == {[k \in 1..n |-> LabelPool[((k + s) % 5) + 1]] : s \in {4, 1}}

\* n x n matrices whose diagonal is 1.0, as the pairwise tests return them
PMatrices(n) ==
    {[i \in 1..n |-> [j \in 1..n |-> IF i = j THEN PUnit ELSE f[<<i, j>>]]] :
        f \in [{<<i, j>> \in (1..n) \X (1..n) : i # j} -> MatPVals]}

(***************************************************************************)
(* Handlers                                                                *)
(***************************************************************************)
Init ==
    /\ op = "start"
    /\ args = [none |-> TRUE]
    /\ ret = [status |-> "none"]
    /\ _dist = None
    /\ _img_view = Empty
    /\ _param_view = Empty

PvalueToAsterisks ==
    \E p \in PVals :
        /\ op = "start"
        /\ UNCHANGED widget
        /\ op' = "pvalue_to_asterisks"
        /\ args' = [pval |-> p]
        /\ ret' = [status |-> "ok", value |-> pvalue_to_asterisks(p)]

PvalMatrix ==
    \E n \in 1..MaxN :
        \E P \in PMatrices(n), L \in LabelSeqs(n) :
            /\ op = "start"
            /\ UNCHANGED widget
            /\ op' = "_pval_matrix"
            /\ args' = [pvalues |-> P, columns |-> L]
            /\ ret' = [status |-> "ok", value |-> pval_matrix(P, L)]

TTest ==
    \E a \in Selections, b \in Selections, alternative \in Alternatives,
       kind \in Kinds, f_threshold \in FThresholds :
        /\ op = "start"
        /\ UNCHANGED widget
        /\ op' = "t_test"
        /\ args' = [a |-> a, b |-> b, alternative |-> alternative, kind |-> kind,
                    f_threshold |-> f_threshold]
        /\ ret' \in run_t_test(a, b, alternative, kind, f_threshold)

PairedTTest ==
    \E a \in Selections, b \in Selections, alternative \in Alternatives :
        /\ op = "start"
        /\ UNCHANGED widget
        /\ op' = "paired_t_test"
        /\ args' = [a |-> a, b |-> b, alternative |-> alternative]
        /\ ret' \in run_paired_t_test(a, b, alternative)

WilcoxonTest ==
    \E a \in Selections, b \in Selections, alternative \in Alternatives :
        /\ op = "start"
        /\ UNCHANGED widget
        /\ op' = "wilcoxon_test"
        /\ args' = [a |-> a, b |-> b, alternative |-> alternative]
        /\ ret' \in run_wilcoxon_test(a, b, alternative)

MannWhitneyUTest ==
    \E a \in Selections, b \in Selections, alternative \in Alternatives :
        /\ op = "start"
        /\ UNCHANGED widget
        /\ op' = "mann_whitney_u_test"
        /\ args' = [a |-> a, b |-> b, alternative |-> alternative]
        /\ ret' \in run_mann_whitney_u_test(a, b, alternative)

ValuesGroupsToArrays ==
    \E n \in 1..MaxLen :
        \E G \in [1..n -> GroupLabels], V \in [1..n -> GroupValues],
           nvalues \in 1..2, grouped \in BOOLEAN :
            LET table == [group |-> G, value |-> V]
                values == [k \in 1..nvalues |-> <<<<0, n>>, <<1, 2>>>>]
                groups == IF grouped THEN <<<<0, n>>, <<0, 1>>>> ELSE None
            IN /\ op = "start"
               /\ UNCHANGED widget
               /\ op' = "_values_groups_to_arrays"
               /\ args' = [table |-> table, values |-> values, groups |-> groups]
               /\ ret' = values_groups_to_arrays(table, values, groups)

DistNorm ==
    \E mu \in FloatParams, sigma \in FloatParams :
        /\ op = "start"
        /\ UNCHANGED widget
        /\ op' = "construct_norm"
        /\ args' = [mu |-> mu, sigma |-> sigma]
        /\ ret' = construct_norm(mu, sigma)

DistUniform ==
    \E a \in FloatParams, b \in FloatParams :
        /\ op = "start"
        /\ UNCHANGED widget
        /\ op' = "construct_uniform"
        /\ args' = [a |-> a, b |-> b]
        /\ ret' = construct_uniform(a, b)

DistExpon ==
    \E scale \in FloatParams :
        /\ op = "start"
        /\ UNCHANGED widget
        /\ op' = "construct_expon"
        /\ args' = [scale |-> scale]
        /\ ret' = construct_expon(scale)

DistGamma ==
    \E a \in FloatParams, scale \in FloatParams :
        /\ op = "start"
        /\ UNCHANGED widget
        /\ op' = "construct_gamma"
        /\ args' = [a |-> a, scale |-> scale]
        /\ ret' = construct_gamma(a, scale)

DistBeta ==
    \E a \in FloatParams, b \in FloatParams :
        /\ op = "start"
        /\ UNCHANGED widget
        /\ op' = "construct_beta"
        /\ args' = [a |-> a, b |-> b]
        /\ ret' = construct_beta(a, b)

DistCauchy ==
    \E loc \in FloatParams, scale \in FloatParams :
        /\ op = "start"
        /\ UNCHANGED widget
        /\ op' = "construct_cauchy"
        /\ args' = [loc |-> loc, scale |-> scale]
        /\ ret' = construct_cauchy(loc, scale)

DistT ==
    \E df \in FloatParams :
        /\ op = "start"
        /\ UNCHANGED widget
        /\ op' = "construct_t"
        /\ args' = [df |-> df]
        /\ ret' = construct_t(df)

DistBinom ==
    \E n \in IntParams, p \in ProbParams :
        /\ op = "start"
        /\ UNCHANGED widget
        /\ op' = "construct_binom"
        /\ args' = [n |-> n, p |-> p]
        /\ ret' = construct_binom(n, p)

DistPoisson ==
    \E lambda_ \in FloatParams :
        /\ op = "start"
        /\ UNCHANGED widget
        /\ op' = "construct_poisson"
        /\ args' = [lambda_ |-> lambda_]
        /\ ret' = construct_poisson(lambda_)

DistGeom ==
    \E p \in ProbParams :
        /\ op = "start"
        /\ UNCHANGED widget
        /\ op' = "construct_geom"
        /\ args' = [p |-> p]
        /\ ret' = construct_geom(p)

NormObs ==
    \E type \in ObsTypes, obs_range \in ObsRanges, dtype \in {"float64", "int64"} :
        LET obs == [type |-> type, value |-> ObsGrid]
        IN /\ op = "start"
           /\ UNCHANGED widget
           /\ op' = "_norm_obs"
           /\ args' = [obs |-> obs, obs_range |-> obs_range, dtype |-> dtype]
           /\ ret' = norm_obs(obs, obs_range, dtype)

FitDist ==
    \E model \in FitModels, type \in ObsTypes, obs_range \in ObsRanges,
       param_as_guess \in BOOLEAN :
        LET obs == [type |-> type, value |-> ObsGrid]
        IN /\ op = "start"
           /\ UNCHANGED widget
           /\ op' = "run_fit"
           /\ args' = [model |-> model, obs |-> obs, obs_range |-> obs_range,
                       param_as_guess |-> param_as_guess]
           /\ ret' \in run_fit(model, obs, obs_range, param_as_guess)

\* a window is opened on a distribution, or shown a new one
UpdateModel ==
    \E model \in DisplayModels :
        /\ op \in {"start", "update_model"}
        /\ op' = "update_model"
        /\ args' = [model |-> model]
        /\ ret' = [status |-> "ok"]
        /\ _img_view' = QDistGraphics_set_dist(model.value)
        /\ _param_view' = QDistParameters_set_dist(model.value)
        /\ UNCHANGED _dist

ToModel ==
    /\ op \in {"start", "update_model"}
    /\ op' = "to_model"
    /\ args' = [none |-> TRUE]
    /\ ret' = to_model(_dist)
    /\ UNCHANGED widget

PlotDist ==
    \E type \in ObsTypes \cup {"None"}, obs_range \in ObsRanges :
        LET obs == IF type = "None" THEN NoObs ELSE [type |-> type, value |-> ObsGrid]
        IN /\ op = "update_model"
           /\ op' = "run_plot"
           /\ args' = [obs |-> obs, obs_range |-> obs_range]
           /\ ret' = run_plot(win_to_model(_dist), obs, obs_range)
           /\ UNCHANGED widget

SampleDist ==
    \E sample_size \in 1..MaxSample, random_state \in {0, 1} :
        /\ op = "update_model"
        /\ op' = "run_sample"
        /\ args' = [sample_size |-> sample_size, random_state |-> random_state]
        /\ ret' \in run_sample(win_to_model(_dist), sample_size, random_state)
        /\ UNCHANGED widget

Next ==
    \/ UpdateModel
    \/ ToModel
    \/ PlotDist
    \/ SampleDist
    \/ DistNorm
    \/ DistUniform
    \/ DistExpon
    \/ DistGamma
    \/ DistBeta
    \/ DistCauchy
    \/ DistT
    \/ DistBinom
    \/ DistPoisson
    \/ DistGeom
    \/ NormObs
    \/ FitDist
    \/ ValuesGroupsToArrays
    \/ PvalueToAsterisks
    \/ PvalMatrix
    \/ TTest
    \/ PairedTTest
    \/ WilcoxonTest
    \/ MannWhitneyUTest

Spec == Init /\ [][Next]_vars

(***************************************************************************)
(* C1: pvalue_to_asterisks returns "n.s." iff p > 0.05, "*" iff            *)
(* 0.01 < p <= 0.05, "**" iff 0.001 < p <= 0.01, "***" iff                 *)
(* 0.0001 < p <= 0.001 and "****" iff p <= 0.0001; p = 0.05 gives "*".     *)
(* In units of 10^-7: 0.05 = 5*10^5, 0.01 = 10^5, 0.001 = 10^4,            *)
(* 0.0001 = 10^3.                                                          *)
(***************************************************************************)
C1_AsteriskTiers ==
    op = "pvalue_to_asterisks" =>
        LET p == args.pval
            r == ret.value
        IN /\ ret.status = "ok"
           /\ (r = "n.s.") <=> (p > 5 * 10^5)
           /\ (r = "*") <=> (p > 10^5 /\ p <= 5 * 10^5)
           /\ (r = "**") <=> (p > 10^4 /\ p <= 10^5)
           /\ (r = "***") <=> (p > 10^3 /\ p <= 10^4)
           /\ (r = "****") <=> (p <= 10^3)

\* p exactly 0.05 has been mapped, to "*"
C1_Witness ==
    op = "pvalue_to_asterisks" /\ args.pval = 5 * 10^5 /\ ret.value = "*"

(***************************************************************************)
(* C2: the matrix built by _pval_matrix from an n x n matrix P and labels  *)
(* L is (n+1) x (n+1), has "" in the corner, the labels in row 0 and       *)
(* column 0, "1.0" on the diagonal, the asterisk code of P[i-1][j-1] below *)
(* the diagonal and its 5-significant-digit text above; no cell below      *)
(* holds a number and no cell above holds an asterisk code.                *)
(***************************************************************************)
C2_MatrixLayout ==
    op = "_pval_matrix" =>
        LET P == args.pvalues
            L == args.columns
            n == Len(P)
            M == ret.value
        IN /\ DOMAIN M = 0..n
           /\ \A i \in 0..n : DOMAIN M[i] = 0..n
           /\ M[0][0] = ""
           /\ \A k \in 1..n : M[0][k] = L[k] /\ M[k][0] = L[k]
           /\ \A i \in 1..n : M[i][i] = "1.0"
           /\ \A i, j \in 1..n :
                /\ i > j => /\ M[i][j] = pvalue_to_asterisks(P[i][j])
                            /\ M[i][j] \in AsteriskCodes
                /\ i < j => /\ M[i][j] = Format5g(P[i][j])
                            /\ M[i][j] \notin AsteriskCodes

\* a 3-group matrix whose cell (3,1) is "n.s." while cell (1,3) reads "0.05",
\* and whose transposed pair differs
C2_Witness ==
    /\ op = "_pval_matrix"
    /\ Len(args.pvalues) = 3
    /\ args.columns = <<"A", "B", "C">>
    /\ args.pvalues[3][1] = 500004 /\ args.pvalues[1][3] = 500004
    /\ args.pvalues[2][1] # args.pvalues[1][2]
    /\ ret.value[3][1] = "n.s." /\ ret.value[1][3] = "0.05"
    /\ ret.value[1][2] = "0.0012346"

(***************************************************************************)
(* Reading a result table                                                  *)
(***************************************************************************)
RowKeys(t) == {t[k][1] : k \in DOMAIN t}

HasRow(t, key) == key \in RowKeys(t)

RowValue(t, key) == t[CHOOSE k \in DOMAIN t : t[k][1] = key][2]

SampleLen(sel) == sel[1][2] - sel[1][1]

C4_EqualSizeEnforced ==
    (op \in {"t_test", "paired_t_test", "wilcoxon_test", "mann_whitney_u_test"}
     /\ SampleLen(args.a) # SampleLen(args.b)) =>
        IF op \in {"paired_t_test", "wilcoxon_test"}
        THEN ret.status = "error" /\ ret.stage = "validate"
        ELSE ~(ret.status = "error" /\ ret.stage = "validate")

(***************************************************************************)
(* C10: a result of the t-family (Student, Welch, paired) holds p-value,   *)
(* asterisk code, t-statistic and degrees of freedom; a result of a        *)
(* rank-based test (Wilcoxon, Mann-Whitney U) holds p-value, asterisk code *)
(* and statistic, and no degrees-of-freedom row.                           *)
(***************************************************************************)
C10_ResultRows ==
    (op \in {"t_test", "paired_t_test", "wilcoxon_test", "mann_whitney_u_test"}
     /\ ret.status = "ok") =>
        LET t == ret.value
        IN /\ HasRow(t, "p-value")
           /\ HasRow(t, "") /\ RowValue(t, "") \in AsteriskCodes
           /\ IF op \in {"t_test", "paired_t_test"}
              THEN HasRow(t, "t-statistic") /\ HasRow(t, "degrees of freedom")
              ELSE /\ HasRow(t, "statistic") \/ HasRow(t, "U-statistic")
                   /\ ~HasRow(t, "degrees of freedom")

\* a Welch result on samples of 2 and 3 rows whose degrees of freedom, 1.7,
\* are reported as 1
C10_Witness ==
    /\ op = "t_test" /\ args.kind = "Welch" /\ ret.status = "ok"
    /\ SampleLen(args.a) = 2 /\ SampleLen(args.b) = 3
    /\ HasRow(ret.value, "degrees of freedom")
    /\ RowValue(ret.value, "degrees of freedom") = 1
    /\ RowValue(ret.value, "kind") = "Welch"

(***************************************************************************)
(* C6: grouped extraction from a label column G and a value column V of    *)
(* equal length returns one sample per distinct label of G, in the order   *)
(* in which the labels first occur, named by the label's string form, and  *)
(* holding exactly the V[k] with G[k] equal to the label, in their         *)
(* original order; the samples partition V.                                *)
(***************************************************************************)
FirstIdx(G, l) == CHOOSE k \in DOMAIN G : G[k] = l /\ \A j \in 1..(k - 1) : G[j] # l

\* the m-th smallest element of the set of indices K
NthOf(K, m) == CHOOSE k \in K : Cardinality({j \in K : j < k}) = m - 1

C6_GroupedExtraction ==
    (op = "_values_groups_to_arrays" /\ args.groups # None /\ Len(args.values) = 1) =>
        LET G == args.table.group
            V == args.table.value
            A == ret.value
        IN /\ ret.status = "ok"
           /\ Len(A) = Cardinality(Range(G))
           /\ \A l \in Range(G) :
                LET i == 1 + Cardinality({l2 \in Range(G) : FirstIdx(G, l2) < FirstIdx(G, l)})
                    K == {k \in DOMAIN G : G[k] = l}
                IN /\ A[i].name = ToString(l)
                   /\ Len(A[i].array) = Cardinality(K)
                   /\ \A m \in 1..Cardinality(K) : A[i].array[m] = V[NthOf(K, m)]
           /\ \A k \in DOMAIN V :
                Cardinality({i \in DOMAIN A : A[i].name = ToString(G[k])}) = 1

\* labels 2, 1, 2 with values 2.5, 1.0, 1.0: "2" comes first and keeps 2.5, 1.0
C6_Witness ==
    /\ op = "_values_groups_to_arrays" /\ args.groups # None /\ Len(args.values) = 1
    /\ args.table.group = <<2, 1, 2>> /\ args.table.value = <<25, 10, 10>>
    /\ ret.status = "ok"
    /\ ret.value = <<[name |-> "2", array |-> <<25, 10>>], [name |-> "1", array |-> <<10>>]>>

(***************************************************************************)
(* C5: extraction from a column-oriented frame with a column range         *)
(* (start, stop) succeeds, returning that column's values, iff exactly one *)
(* column is selected (stop - start = 1); every other selection fails and  *)
(* returns no sample.                                                      *)
(***************************************************************************)
C5_FrameSingleColumn ==
    (op = "_norm_obs" /\ args.obs.type = "dataframe" /\ args.obs_range # None
     /\ args.dtype = "float64") =>
        LET rows == args.obs_range[1]
            start == args.obs_range[2][1]
            stop == args.obs_range[2][2]
        IN IF stop - start = 1
           THEN /\ ret.status = "ok"
                /\ Ravel(ret.value) =
                       [k \in 1..(rows[2] - rows[1]) |-> ObsCell(rows[1] + k - 1, start)]
           ELSE ret.status = "error"

(***************************************************************************)
(* C7: a constructor given parameters outside the family's domain (scale   *)
(* <= 0 for Normal, Uniform, Exponential, Gamma, Cauchy, with Uniform's    *)
(* scale b - a; a <= 0 or b <= 0 for Beta, a <= 0 for Gamma; df <= 0 for   *)
(* StudentT; n < 0 or p outside [0,1] for Binomial; mu <= 0 for Poisson;   *)
(* p outside (0,1] for Geometric) fails and yields no Distribution; every  *)
(* Distribution produced satisfies its family's constraints.               *)
(***************************************************************************)
ConstructOps ==
    {"construct_norm", "construct_uniform", "construct_expon", "construct_gamma",
     "construct_beta", "construct_cauchy", "construct_t", "construct_binom",
     "construct_poisson", "construct_geom"}

InDomain(d) ==
    LET k == d.kwds
    IN CASE d.dist \in {"norm", "uniform", "expon", "cauchy"} -> k.scale > 0
         [] d.dist = "gamma" -> k.a > 0 /\ k.scale > 0
         [] d.dist = "beta" -> k.a > 0 /\ k.b > 0
         [] d.dist = "t" -> k.df > 0
         [] d.dist = "binom" -> k.n >= 0 /\ k.p >= 0 /\ k.p <= VUnit
         [] d.dist = "poisson" -> k.mu > 0
         [] d.dist = "geom" -> k.p > 0 /\ k.p <= VUnit

ArgsInDomain ==
    CASE op = "construct_norm" -> args.sigma > 0
      [] op = "construct_uniform" -> args.b > args.a
      [] op \in {"construct_expon", "construct_cauchy"} -> args.scale > 0
      [] op = "construct_gamma" -> args.a > 0 /\ args.scale > 0
      [] op = "construct_beta" -> args.a > 0 /\ args.b > 0
      [] op = "construct_t" -> args.df > 0
      [] op = "construct_binom" -> args.n >= 0 /\ args.p >= 0 /\ args.p <= VUnit
      [] op = "construct_poisson" -> args.lambda_ > 0
      [] op = "construct_geom" -> args.p > 0 /\ args.p <= VUnit

C7_ParametersValidated ==
    op \in ConstructOps =>
        /\ ~ArgsInDomain => ret.status = "error"
        /\ ret.status = "ok" => InDomain(ret.value)

(***************************************************************************)
(* C8: fitting a discrete family (one without a density) to observations   *)
(* that contain a non-integer value fails before the optimizer is called   *)
(* and returns no fitted distribution; the observations are never cut to   *)
(* integers and fitted.                                                    *)
(***************************************************************************)
\* the cells the selection names, before any conversion
SelectedCells(obs, obs_range) ==
    IF obs_range = None THEN Range(Ravel(obs.value))
    ELSE Range(Ravel(Slice2D(obs.value, obs_range[1], obs_range[2])))

C8_DiscreteFitRejectsFractions ==
    (op = "run_fit" /\ ~HasPdf(args.model.value) /\ args.obs.type \in {"table", "array"}
     /\ \E v \in SelectedCells(args.obs, args.obs_range) : v % VUnit # 0) =>
        /\ ret.status = "error"
        /\ "fit_call" \notin DOMAIN ret

(***************************************************************************)
(* C9: whenever fit reaches the optimizer, the observations it hands over  *)
(* are non-empty and the bounds it passes are loc = (min, max) of those    *)
(* observations and scale = (range / 10000, range * 10), range = max -     *)
(* min, for every family and with or without an initial guess.             *)
(***************************************************************************)
FracEq(x, y) == x.num * y.den = y.num * x.den

C9_FitBounds ==
    (op = "run_fit" /\ "fit_call" \in DOMAIN ret) =>
        LET data == ret.fit_call.data
            b == ret.fit_call.bounds
            lo == CHOOSE k \in DOMAIN data : \A j \in DOMAIN data : data[k] <= data[j]
            hi == CHOOSE k \in DOMAIN data : \A j \in DOMAIN data : data[k] >= data[j]
            range == data[hi] - data[lo]
        IN /\ data # <<>>
           /\ DOMAIN b = {"loc", "scale"}
           /\ b.loc = <<data[lo], data[hi]>>
           /\ FracEq(b.scale[1], Frac(range, 10000))
           /\ FracEq(b.scale[2], Frac(10 * range, 1))

\* a Poisson fit, seeded with the current parameters, on the table column
\* 1.0, 2.0, 3.0: loc in (1.0, 3.0), scale in (2.0 / 10000, 20.0)
C9_Witness ==
    /\ op = "run_fit" /\ "fit_call" \in DOMAIN ret
    /\ args.model.value.dist = "poisson" /\ args.param_as_guess
    /\ args.obs.type = "table" /\ args.obs_range = <<<<0, 3>>, <<0, 1>>>>
    /\ ret.fit_call.data = <<10, 20, 30>>
    /\ ret.fit_call.bounds.loc = <<10, 30>>
    /\ ret.fit_call.bounds.scale = <<Frac(20, 10000), Frac(200, 1)>>
    /\ ret.status = "ok"

(* ---- C11 ---- *)

FracLt(x, y) == x.num * y.den < y.num * x.den

\* C11: for every non-empty observation set that reaches the optimizer, the
\* scale bounds are a non-degenerate interval (0 < lower < upper) and the
\* location bounds are ordered (lower <= upper), also when all the
\* observations are equal.
C11_ScaleBoundsNonDegenerate ==
    (op = "run_fit" /\ "fit_call" \in DOMAIN ret) =>
        LET b == ret.fit_call.bounds
        IN /\ FracLt(Frac(0, 1), b.scale[1])
           /\ FracLt(b.scale[1], b.scale[2])
           /\ b.loc[1] <= b.loc[2]

(* ---- C13 ---- *)

(***************************************************************************)
(* C13: in the auto mode of the t-test the F-test is computed on the two   *)
(* extracted samples, so that the selection is a function of the sample    *)
(* values and f_threshold alone, whatever the place of the selections in   *)
(* the table.  Stated here: the F-test evaluated by an auto-mode run is    *)
(* the one-way F statistic of the extracted samples x0.array, y0[0].array. *)
(***************************************************************************)
C13_FTestOnSamples ==
    (op = "t_test" /\ args.kind = "F" /\ "f_result" \in DOMAIN ret) =>
        LET x == NamedArray(args.a).array
            y == NamedArray(args.b).array
            F == FStat(x, y)
        IN /\ Len(ret.f_result) = 1
           /\ ret.f_result[1].num * F.den = F.num * ret.f_result[1].den
           /\ ret.f_result[1].dfd = F.dfd

(* ---- C12, C14 ---- *)

\* the distribution the views of the window display
Displayed == rv_frozen(_param_view.dist_name, _param_view.params)

(***************************************************************************)
(* C12: plotting the distribution d of a window evaluates the curve over   *)
(* a domain that starts as (d.ppf(0.001), d.ppf(0.999)); without           *)
(* observations the domain is exactly that, and with observations it is    *)
(* (min(q0.001, min(obs)), max(q0.999, max(obs))).                         *)
(***************************************************************************)
C12_PlotDomain ==
    op = "run_plot" =>
        LET d == Displayed
            q == <<Ppf(d, 1), Ppf(d, 999)>>
            dtype == IF HasPdf(d) THEN "float64" ELSE "int64"
            arr == norm_obs(args.obs, args.obs_range, dtype)
            lo == Frac(ArrMin(Ravel(arr.value)), 1)
            hi == Frac(ArrMax(Ravel(arr.value)), 1)
        IN IF args.obs = NoObs
           THEN /\ ret.status = "ok"
                /\ FracEq(ret.value.curve_domain[1], q[1])
                /\ FracEq(ret.value.curve_domain[2], q[2])
           ELSE (arr.status = "ok" /\ Ravel(arr.value) # <<>>) =>
                /\ ret.status = "ok"
                /\ FracEq(ret.value.curve_domain[1], FracMin(q[1], lo))
                /\ FracEq(ret.value.curve_domain[2], FracMax(q[2], hi))

(***************************************************************************)
(* C14: after update_model calls of which the last carried distribution d, *)
(* to_model returns a model whose value is d, never None.                  *)
(***************************************************************************)
C14_ToModelReturnsDisplayed ==
    (op = "to_model" /\ _param_view # Empty) =>
        /\ ret.value # None
        /\ ret.value = Displayed

====
